---- MODULE Spec2Model ----
(***************************************************************************)
(* Model of the tiny-clj ctags tooling: the tag table parser and query     *)
(* engine (ctags_mcp_tool.py), the editor adapter                          *)
(* (ctags_cursor_integration.py) and the comment-aware rename engine       *)
(* (refactor_tool_advanced.py).                                            *)
(*                                                                         *)
(* A Python str is modelled as a sequence of one-character strings, and    *)
(* indices into it are 0-based as in the source; Python's -1 "not found"   *)
(* is kept.  A file's content is one such sequence, newlines included.     *)
(***************************************************************************)
EXTENDS Integers, Sequences, FiniteSets, TLC

VARIABLES
    tags,       \* the loaded tag table, CtagsParser.tags
    fs,         \* the workspace's files: file name -> content
    mode,       \* each file's access: "rw", "ro" or "none"
    lastCall,   \* the command last run, its arguments, and whether the
                \* command before it was an executed rename of the same pair
    result      \* what the last command returned

vars == <<tags, fs, mode, lastCall, result>>

-----------------------------------------------------------------------------
(* Python str primitives used by the source.                               *)

NL == "\n"
TAB == "\t"

\* The characters str.strip() removes.
Whitespace == {" ", "\t", "\n", "\r"}

Min(S) == CHOOSE m \in S : \A n \in S : m <= n

\* s[i:j] for 0 <= i, clamped like a Python slice.
Slice(s, i, j) ==
    LET hi == IF j > Len(s) THEN Len(s) ELSE j
    IN  IF i >= hi THEN << >> ELSE SubSeq(s, i + 1, hi)

\* s.find(sub, start): the lowest index >= start where sub occurs, or -1.
Find(s, sub, start) ==
    LET cands == {i \in start .. (Len(s) - Len(sub)) :
                     \A k \in 1 .. Len(sub) : s[i + k] = sub[k]}
    IN  IF cands = {} THEN -1 ELSE Min(cands)

\* sub in s
Contains(s, sub) == Find(s, sub, 0) # -1

\* s.startswith(p)
StartsWith(s, p) ==
    /\ Len(p) <= Len(s)
    /\ \A k \in 1 .. Len(p) : s[k] = p[k]

\* s.endswith(p)
EndsWith(s, p) ==
    /\ Len(p) <= Len(s)
    /\ \A k \in 1 .. Len(p) : s[Len(s) - Len(p) + k] = p[k]

\* s.strip()
Strip(s) ==
    LET keep == {i \in 1 .. Len(s) : s[i] \notin Whitespace}
    IN  IF keep = {} THEN << >>
        ELSE SubSeq(s, Min(keep), CHOOSE m \in keep : \A n \in keep : n <= m)

\* The printable ASCII characters in code point order, from the space on
\* (the grave accent, code 96, cannot be written in a string here and no
\* name of the model holds it).
Ascii ==
    <<" ", "!", "\"", "#", "$", "%", "&", "'", "(", ")", "*", "+", ",", "-", ".", "/",
      "0", "1", "2", "3", "4", "5", "6", "7", "8", "9", ":", ";", "<", "=", ">", "?",
      "@", "A", "B", "C", "D", "E", "F", "G", "H", "I", "J", "K", "L", "M", "N", "O",
      "P", "Q", "R", "S", "T", "U", "V", "W", "X", "Y", "Z", "[", "\\", "]", "^", "_",
      "grave", "a", "b", "c", "d", "e", "f", "g", "h", "i", "j", "k", "l", "m", "n", "o",
      "p", "q", "r", "s", "t", "u", "v", "w", "x", "y", "z", "{", "|", "}", "~">>

CodePoint ==
    [c \in {Ascii[i] : i \in 1 .. Len(Ascii)} |->
        31 + (CHOOSE i \in 1 .. Len(Ascii) : Ascii[i] = c)]

\* ord(c) of a printable character (0 for any other).
Ord(c) == IF c \in DOMAIN CodePoint THEN CodePoint[c] ELSE 0

\* s.lower(): the letters A to Z become a to z.
Lower(s) ==
    [i \in 1 .. Len(s) |->
        IF Ord(s[i]) \in 65 .. 90 THEN Ascii[Ord(s[i]) + 1] ELSE s[i]]

\* a < b on str: by the first differing character, a proper prefix first.
StrLess(a, b) ==
    \E k \in 1 .. Len(b) :
        /\ \A j \in 1 .. (k - 1) : j <= Len(a) /\ a[j] = b[j]
        /\ (k > Len(a) \/ (k <= Len(a) /\ Ord(a[k]) < Ord(b[k])))

RECURSIVE ReplaceFrom(_, _, _, _)
ReplaceFrom(s, old, new, i) ==
    LET p == Find(s, old, i)
    IN  IF p = -1 THEN Slice(s, i, Len(s))
        ELSE Slice(s, i, p) \o new \o ReplaceFrom(s, old, new, p + Len(old))

\* s.replace(old, new) for a non-empty old: every non-overlapping match,
\* left to right.
Replace(s, old, new) == ReplaceFrom(s, old, new, 0)

RECURSIVE SplitFrom(_, _, _)
SplitFrom(s, sep, i) ==
    LET p == Find(s, sep, i)
    IN  IF p = -1 THEN <<Slice(s, i, Len(s))>>
        ELSE <<Slice(s, i, p)>> \o SplitFrom(s, sep, p + Len(sep))

\* s.split(sep): always at least one piece.
Split(s, sep) == SplitFrom(s, sep, 0)

RECURSIVE Join(_, _)
\* sep.join(parts)
Join(sep, parts) ==
    IF parts = << >> THEN << >>
    ELSE IF Len(parts) = 1 THEN parts[1]
    ELSE parts[1] \o sep \o Join(sep, Tail(parts))

RECURSIVE ReadLinesFrom(_, _)
ReadLinesFrom(s, i) ==
    LET p == Find(s, <<NL>>, i)
    IN  IF i >= Len(s) THEN << >>
        ELSE IF p = -1 THEN <<Slice(s, i, Len(s))>>
        ELSE <<Slice(s, i, p + 1)>> \o ReadLinesFrom(s, p + 1)

\* f.readlines(): the lines of the content, each keeping its newline.
ReadLines(s) == ReadLinesFrom(s, 0)

-----------------------------------------------------------------------------
(* Comment classifier, refactor_tool_advanced.py.                          *)

is_comment_line(line) ==
    LET stripped == Strip(line)
    IN  \/ StartsWith(stripped, <<"/", "/">>)
        \/ StartsWith(stripped, <<"/", "*">>)
        \/ StartsWith(stripped, <<"*">>)
        \/ (Contains(stripped, <<"/", "*">>) /\ Contains(stripped, <<"*", "/">>))
        \/ StartsWith(stripped, <<"/", "/", "/">>)
        \/ StartsWith(stripped, <<"*", " ", "@">>)

RECURSIVE RFind(_, _, _)
\* s.rfind(sub) searched downwards from start.
RFind(s, sub, start) ==
    IF start < 0 THEN -1
    ELSE IF Slice(s, start, start + Len(sub)) = sub THEN start
    ELSE RFind(s, sub, start - 1)

\* is_in_comment looking for the last // of the line instead of the first.
is_in_comment_from_last_slashes(line, position) ==
    LET comment_pos == RFind(line, <<"/", "/">>, Len(line))
        block_start == Find(line, <<"/", "*">>, 0)
        block_end   == Find(line, <<"*", "/">>, block_start)
    IN  \/ (comment_pos # -1 /\ comment_pos < position)
        \/ /\ block_start # -1
           /\ block_start < position
           /\ (block_end = -1 \/ block_end > position)

is_in_comment(line, position) ==
    LET comment_pos == Find(line, <<"/", "/">>, 0)
        block_start == Find(line, <<"/", "*">>, 0)
        block_end   == Find(line, <<"*", "/">>, block_start)
    IN  \/ (comment_pos # -1 /\ comment_pos < position)
        \/ /\ block_start # -1
           /\ block_start < position
           /\ (block_end = -1 \/ block_end > position)

-----------------------------------------------------------------------------
(* Tag table queries, ctags_mcp_tool.py, and the editor adapter,            *)
(* ctags_cursor_integration.py.                                             *)

SearchLimit == 50
DefinitionLimit == 10
ReferenceLimit == 50

\* results[:n]
Take(s, n) == IF Len(s) <= n THEN s ELSE SubSeq(s, 1, n)

\* s.isdigit() for ASCII text: not empty, and every character a digit.
IsDigit(s) == s # << >> /\ \A i \in 1 .. Len(s) : Ord(s[i]) \in 48 .. 57

RECURSIVE ToInt(_)
\* int(s) of an all-digit s.
ToInt(s) ==
    IF s = << >> THEN 0
    ELSE 10 * ToInt(SubSeq(s, 1, Len(s) - 1)) + (Ord(s[Len(s)]) - 48)

RECURSIVE ext_fields_from(_, _, _)
\* The loop over ext_part.split('\t'): ext_fields after the fields from i
\* on, a later key:value replacing an earlier one of the same key.
ext_fields_from(ext, fields, i) ==
    IF i > Len(fields) THEN ext
    ELSE LET field == fields[i]
             colon == Find(field, <<":">>, 0)
             key   == Slice(field, 0, colon)
             value == Slice(field, colon + 1, Len(field))
         IN  IF colon # -1
             THEN ext_fields_from(
                      [k \in DOMAIN ext \cup {key} |-> IF k = key THEN value ELSE ext[k]],
                      fields, i + 1)
             ELSE ext_fields_from(ext, fields, i + 1)

\* ext_fields.get(key, '')
ExtGet(ext, key) == IF key \in DOMAIN ext THEN ext[key] ELSE << >>

\* The ext_fields dictionary _parse_tag_line builds from its parts.
ext_fields_of(parts) ==
    IF Len(parts) > 3
    THEN LET raw == parts[4]
             ext_part == IF EndsWith(raw, <<";", "\"">>)
                         THEN Slice(raw, 0, Len(raw) - 2) ELSE raw
         IN  ext_fields_from(<< >>, Split(ext_part, <<TAB>>), 1)
    ELSE << >>

\* CtagsParser._parse_tag_line; ok is FALSE where the source returns None.
parse_tag_line(line, line_num) ==
    LET parts == Split(line, <<TAB>>)
        ext == ext_fields_of(parts)
        k(name) == ExtGet(ext, name)
    IN  IF Len(parts) < 3 THEN [ok |-> FALSE]
        ELSE [ok  |-> TRUE,
              tag |-> [name        |-> parts[1],
                       filename    |-> parts[2],
                       excmd       |-> parts[3],
                       kind        |-> k(<<"k", "i", "n", "d">>),
                       line        |-> IF IsDigit(k(<<"l", "i", "n", "e">>))
                                       THEN ToInt(k(<<"l", "i", "n", "e">>)) ELSE 0,
                       typeref     |-> k(<<"t", "y", "p", "e", "r", "e", "f">>),
                       scope       |-> k(<<"s", "c", "o", "p", "e">>),
                       access      |-> k(<<"a", "c", "c", "e", "s", "s">>),
                       signature   |-> k(<<"s", "i", "g", "n", "a", "t", "u", "r", "e">>),
                       line_number |-> line_num]]

MetaPrefix == <<"!", "_", "T", "A", "G", "_">>

\* The body of the loop of _load_tags for one line of the file: the tags it
\* appends.
load_line(raw, line_num) ==
    LET line == Strip(raw)
        parsed == parse_tag_line(line, line_num)
    IN  IF StartsWith(line, MetaPrefix) THEN << >>
        ELSE IF parsed.ok THEN <<parsed.tag>>
        ELSE << >>

RECURSIVE load_lines(_, _)
load_lines(lines, line_num) ==
    IF line_num > Len(lines) THEN << >>
    ELSE load_line(lines[line_num], line_num) \o load_lines(lines, line_num + 1)

TagsFile == <<"t", "a", "g", "s">>

\* CtagsParser._load_tags: the table it leaves in self.tags.
load_tags(fsys) ==
    IF TagsFile \notin DOMAIN fsys THEN << >>
    ELSE load_lines(ReadLines(fsys[TagsFile]), 1)

\* An Optional[str] argument: None, or a str.
None == [some |-> FALSE, val |-> << >>]
Some(v) == [some |-> TRUE, val |-> v]

\* Python truth of an Optional[str]: neither None nor "".
Truthy(opt) == opt.some /\ opt.val # << >>

\* (x['filename'], x['line']) < (y['filename'], y['line'])
KeyLess(x, y) ==
    \/ StrLess(x.filename, y.filename)
    \/ (x.filename = y.filename /\ x.line < y.line)

\* One step of the stable sort: x goes after every element that is not
\* greater than it.
InsertByKey(sorted, x) ==
    LET before == {i \in 0 .. Len(sorted) :
                      \A j \in (i + 1) .. Len(sorted) : KeyLess(x, sorted[j])}
        at == Min(before)
    IN  SubSeq(sorted, 1, at) \o <<x>> \o SubSeq(sorted, at + 1, Len(sorted))

RECURSIVE SortedByKeyFrom(_, _, _)
SortedByKeyFrom(sorted, results, i) ==
    IF i > Len(results) THEN sorted
    ELSE SortedByKeyFrom(InsertByKey(sorted, results[i]), results, i + 1)

\* sorted(results, key=lambda x: (x['filename'], x['line'])): stable.
SortedByKey(results) == SortedByKeyFrom(<< >>, results, 1)

\* find_symbols with the kind filter left out.
find_symbols_any_kind(table, query, kind, filename) ==
    SortedByKey(SelectSeq(table, LAMBDA tag :
        /\ ~(Truthy(filename) /\ ~Contains(tag.filename, filename.val))
        /\ Contains(Lower(tag.name), Lower(query))))

\* CtagsParser.find_symbols
find_symbols(table, query, kind, filename) ==
    SortedByKey(SelectSeq(table, LAMBDA tag :
        /\ ~(Truthy(kind) /\ tag.kind # kind.val)
        /\ ~(Truthy(filename) /\ ~Contains(tag.filename, filename.val))
        /\ Contains(Lower(tag.name), Lower(query))))

\* find_definition returning the partial matches after the exact ones.
Parser_find_definition_with_partial(table, symbol) ==
    SelectSeq(table, LAMBDA tag : tag.name = symbol)
        \o find_symbols(table, symbol, None, None)

\* CtagsParser.find_definition
Parser_find_definition(table, symbol) ==
    LET exact_matches == SelectSeq(table, LAMBDA tag : tag.name = symbol)
    IN  IF exact_matches # << >> THEN exact_matches
        ELSE find_symbols(table, symbol, None, None)

\* CtagsMCPTool.search_symbols
Tool_search_symbols(table, query, kind, filename) ==
    LET results == find_symbols(table, query, kind, filename)
    IN  [query           |-> query,
         kind_filter     |-> kind,
         filename_filter |-> filename,
         total_results   |-> Len(results),
         symbols         |-> Take(results, SearchLimit)]

\* CtagsMCPTool.find_definition
Tool_find_definition(table, symbol) ==
    [symbol      |-> symbol,
     definitions |-> Take(Parser_find_definition(table, symbol), DefinitionLimit)]

\* CursorCtagsIntegration.goto_definition
Cursor_goto_definition(table, symbol) ==
    LET defs == Tool_find_definition(table, symbol).definitions
    IN  IF defs # << >>
        THEN [success   |-> TRUE,
              file      |-> defs[1].filename,
              line      |-> defs[1].line,
              column    |-> 1,
              symbol    |-> symbol,
              kind      |-> defs[1].kind,
              signature |-> defs[1].signature]
        ELSE [success |-> FALSE]

\* CtagsParser.find_references over the loaded table.
Parser_find_references(table, symbol) ==
    SelectSeq(table, LAMBDA tag : \/ Contains(tag.name, symbol)
                                  \/ Contains(tag.typeref, symbol))

\* CtagsMCPTool.find_references: the "references" list of the envelope.
Tool_find_references(table, symbol) ==
    Take(Parser_find_references(table, symbol), ReferenceLimit)

\* CursorCtagsIntegration.find_all_references: the "references" list.
Cursor_find_all_references(table, symbol) ==
    LET refs == Tool_find_references(table, symbol)
    IN  [i \in 1 .. Len(refs) |->
            [file    |-> refs[i].filename,
             line    |-> refs[i].line,
             column  |-> 1,
             kind    |-> refs[i].kind,
             context |-> refs[i].excmd]]

-----------------------------------------------------------------------------
(* Rename engine, refactor_tool_advanced.py.  fsys maps each existing file  *)
(* to its content; modes maps it to "rw", "ro" (open for writing raises)    *)
(* or "none" (open for reading raises too).                                 *)

\* AdvancedRefactorTool.find_all_references: the subprocess's "references".
find_all_references(table, symbol) == Cursor_find_all_references(table, symbol)

RECURSIVE scan_line_past_match(_, _, _, _, _)
\* scan_line resuming after the whole match instead of one character on.
scan_line_past_match(file, line_num, line, symbol, start_pos) ==
    LET pos == Find(line, symbol, start_pos)
    IN  IF pos = -1 THEN << >>
        ELSE (IF ~is_in_comment(line, pos)
              THEN <<[file    |-> file,
                      line    |-> line_num,
                      column  |-> pos + 1,
                      context |-> Strip(line),
                      match   |-> symbol]>>
              ELSE << >>)
             \o scan_line_past_match(file, line_num, line, symbol, pos + Len(symbol))

RECURSIVE scan_line(_, _, _, _, _)
\* The while loop of find_symbol_occurrences over one line.
scan_line(file, line_num, line, symbol, start_pos) ==
    LET pos == Find(line, symbol, start_pos)
    IN  IF pos = -1 THEN << >>
        ELSE (IF ~is_in_comment(line, pos)
              THEN <<[file    |-> file,
                      line    |-> line_num,
                      column  |-> pos + 1,
                      context |-> Strip(line),
                      match   |-> symbol]>>
              ELSE << >>)
             \o scan_line(file, line_num, line, symbol, pos + 1)

RECURSIVE scan_lines_keeping_comment_lines(_, _, _, _)
\* scan_lines without the skip of comment lines.
scan_lines_keeping_comment_lines(file, lines, symbol, line_num) ==
    IF line_num > Len(lines) THEN << >>
    ELSE (IF Contains(lines[line_num], symbol)
          THEN scan_line(file, line_num, lines[line_num], symbol, 0)
          ELSE << >>)
         \o scan_lines_keeping_comment_lines(file, lines, symbol, line_num + 1)

RECURSIVE scan_lines(_, _, _, _)
\* The for loop over enumerate(lines, 1), from line line_num on.
scan_lines(file, lines, symbol, line_num) ==
    IF line_num > Len(lines) THEN << >>
    ELSE (IF is_comment_line(lines[line_num]) THEN << >>
          ELSE IF Contains(lines[line_num], symbol)
          THEN scan_line(file, line_num, lines[line_num], symbol, 0)
          ELSE << >>)
         \o scan_lines(file, lines, symbol, line_num + 1)

\* The body of the loop over references: nothing for a missing file, and
\* nothing for one whose open raises.
scan_file(fsys, modes, file, symbol) ==
    IF file \notin DOMAIN fsys THEN << >>
    ELSE IF modes[file] = "none" THEN << >>
    ELSE scan_lines(file, ReadLines(fsys[file]), symbol, 1)

RECURSIVE scan_refs(_, _, _, _, _)
scan_refs(fsys, modes, refs, symbol, i) ==
    IF i > Len(refs) THEN << >>
    ELSE scan_file(fsys, modes, refs[i].file, symbol)
         \o scan_refs(fsys, modes, refs, symbol, i + 1)

find_symbol_occurrences(table, fsys, modes, symbol) ==
    scan_refs(fsys, modes, find_all_references(table, symbol), symbol, 1)

\* Lines of one referenced file that hold the symbol and are comment lines.
skipped_in_file(fsys, modes, file, old_symbol) ==
    IF file \notin DOMAIN fsys THEN 0
    ELSE IF modes[file] = "none" THEN 0
    ELSE LET lines == ReadLines(fsys[file])
         IN  Cardinality({k \in 1 .. Len(lines) :
                             /\ Contains(lines[k], old_symbol)
                             /\ is_comment_line(lines[k])})

RECURSIVE count_skipped(_, _, _, _, _)
count_skipped(fsys, modes, refs, old_symbol, i) ==
    IF i > Len(refs) THEN 0
    ELSE skipped_in_file(fsys, modes, refs[i].file, old_symbol)
         + count_skipped(fsys, modes, refs, old_symbol, i + 1)

\* One entry of preview["changes"].
make_change(occ, old_symbol, new_symbol) ==
    [file     |-> occ.file,
     line     |-> occ.line,
     column   |-> occ.column,
     old_line |-> occ.context,
     new_line |-> Replace(occ.context, old_symbol, new_symbol)]

preview_rename(table, fsys, modes, old_symbol, new_symbol) ==
    LET occurrences == find_symbol_occurrences(table, fsys, modes, old_symbol)
    IN  [old_symbol        |-> old_symbol,
         new_symbol        |-> new_symbol,
         total_occurrences |-> Len(occurrences),
         files_affected    |-> {occurrences[i].file : i \in 1 .. Len(occurrences)},
         changes           |-> [i \in 1 .. Len(occurrences) |->
                                   make_change(occurrences[i], old_symbol, new_symbol)],
         skipped_comments  |-> count_skipped(fsys, modes,
                                   find_all_references(table, old_symbol),
                                   old_symbol, 1)]

RECURSIVE rename_line(_, _, _, _)
\* The inner while loop of rename_symbol over one line.
rename_line(new_line, old_symbol, new_symbol, start_pos) ==
    LET pos == Find(new_line, old_symbol, start_pos)
    IN  IF pos = -1 THEN new_line
        ELSE IF ~is_in_comment(new_line, pos)
        THEN rename_line(Slice(new_line, 0, pos) \o new_symbol
                            \o Slice(new_line, pos + Len(old_symbol), Len(new_line)),
                         old_symbol, new_symbol, pos + Len(new_symbol))
        ELSE rename_line(new_line, old_symbol, new_symbol, pos + 1)

\* What one pass of the try block writes back for a file's content.
rewrite_content(content, old_symbol, new_symbol) ==
    LET lines == Split(content, <<NL>>)
    IN  Join(<<NL>>,
             [i \in 1 .. Len(lines) |->
                 IF Contains(lines[i], old_symbol) /\ ~is_comment_line(lines[i])
                 THEN rename_line(lines[i], old_symbol, new_symbol, 0)
                 ELSE lines[i]])

\* Whether the try block for this change runs to its end: both opens succeed.
change_succeeds(fsys, modes, change) ==
    /\ change.file \in DOMAIN fsys
    /\ modes[change.file] = "rw"

RECURSIVE apply_changes_until_failure(_, _, _, _, _, _)
\* apply_changes with the failure of one change ending the loop.
apply_changes_until_failure(acc, modes, changes, old_symbol, new_symbol, i) ==
    IF i > Len(changes) THEN acc
    ELSE LET change == changes[i]
         IN  IF change_succeeds(acc.fs, modes, change)
             THEN apply_changes_until_failure(
                      [fs |-> [acc.fs EXCEPT ![change.file] =
                                  rewrite_content(@, old_symbol, new_symbol)],
                       files_changed |-> acc.files_changed \cup {change.file},
                       changes_made  |-> acc.changes_made + 1],
                      modes, changes, old_symbol, new_symbol, i + 1)
             ELSE acc

RECURSIVE apply_changes(_, _, _, _, _, _)
\* The loop over preview["changes"] from index i on; acc carries the file
\* system, files_changed and changes_made.
apply_changes(acc, modes, changes, old_symbol, new_symbol, i) ==
    IF i > Len(changes) THEN acc
    ELSE LET change == changes[i]
         IN  IF change_succeeds(acc.fs, modes, change)
             THEN apply_changes(
                      [fs |-> [acc.fs EXCEPT ![change.file] =
                                  rewrite_content(@, old_symbol, new_symbol)],
                       files_changed |-> acc.files_changed \cup {change.file},
                       changes_made  |-> acc.changes_made + 1],
                      modes, changes, old_symbol, new_symbol, i + 1)
             ELSE apply_changes(acc, modes, changes, old_symbol, new_symbol, i + 1)

\* rename_symbol rewriting every referenced file, not only those of the
\* preview's changes.
rename_symbol_over_references(table, fsys, modes, old_symbol, new_symbol, dry_run) ==
    LET preview == preview_rename(table, fsys, modes, old_symbol, new_symbol)
        done == apply_changes([fs |-> fsys, files_changed |-> {}, changes_made |-> 0],
                              modes, find_all_references(table, old_symbol),
                              old_symbol, new_symbol, 1)
    IN  IF dry_run
        THEN [fs |-> fsys,
              ret |-> [status |-> "preview", preview |-> preview]]
        ELSE [fs |-> done.fs,
              ret |-> [status        |-> "completed",
                       files_changed |-> done.files_changed,
                       changes_made  |-> done.changes_made,
                       preview       |-> preview]]

\* rename_symbol without the dry_run test.
rename_symbol_ignoring_dry_run(table, fsys, modes, old_symbol, new_symbol, dry_run) ==
    LET preview == preview_rename(table, fsys, modes, old_symbol, new_symbol)
        done == apply_changes([fs |-> fsys, files_changed |-> {}, changes_made |-> 0],
                              modes, preview.changes, old_symbol, new_symbol, 1)
    IN  [fs |-> done.fs,
         ret |-> [status        |-> "completed",
                  files_changed |-> done.files_changed,
                  changes_made  |-> done.changes_made,
                  preview       |-> preview]]

\* rename_symbol: the returned record and the file system it leaves.
rename_symbol(table, fsys, modes, old_symbol, new_symbol, dry_run) ==
    LET preview == preview_rename(table, fsys, modes, old_symbol, new_symbol)
        done == apply_changes([fs |-> fsys, files_changed |-> {}, changes_made |-> 0],
                              modes, preview.changes, old_symbol, new_symbol, 1)
    IN  IF dry_run
        THEN [fs |-> fsys,
              ret |-> [status |-> "preview", preview |-> preview]]
        ELSE [fs |-> done.fs,
              ret |-> [status        |-> "completed",
                       files_changed |-> done.files_changed,
                       changes_made  |-> done.changes_made,
                       preview       |-> preview]]

-----------------------------------------------------------------------------
(* The workspaces and commands explored.                                    *)

MaxLen == 3          \* longest generated content of the first file
MaxChanges == 3      \* an executed rename is explored up to this many changes

Chars == {"f", "/", "*"}

Str(n) == UNION {[1 .. k -> Chars] : k \in 0 .. n}

FileA == <<"a">>
FileB == <<"b">>
FileC == <<"c">>
ExampleFile == <<"s", "r", "c", "/", "a", ".", "c">>

sym_f == <<"f">>
sym_ff == <<"f", "f">>
sym_g == <<"g">>
sym_fg == <<"f", "g">>
sym_foo == <<"f", "o", "o">>
sym_bar == <<"b", "a", "r">>

\* One record of CtagsParser.tags.
Tag(name, filename, kind, line, typeref) ==
    [name        |-> name,
     filename    |-> filename,
     excmd       |-> << >>,
     kind        |-> kind,
     line        |-> line,
     typeref     |-> typeref,
     scope       |-> << >>,
     access      |-> << >>,
     signature   |-> << >>,
     line_number |-> 1]

\* Tag tables for the rename engine: a symbol defined in two files; a
\* symbol referenced through a typeref, in a file that does not exist and
\* twice in the same file; and a two-character symbol of the first file.
RenameTables ==
    { <<Tag(sym_f, FileA, << >>, 1, << >>), Tag(sym_ff, FileB, << >>, 1, << >>)>>,
      <<Tag(sym_g, FileB, << >>, 1, sym_f), Tag(sym_f, FileC, << >>, 1, << >>),
        Tag(sym_f, FileA, << >>, 1, << >>), Tag(sym_f, FileA, << >>, 2, << >>)>>,
      <<Tag(sym_ff, FileA, << >>, 1, << >>)>> }

\* The end-to-end example: one entry for foo in src/a.c, and the file's line.
ExampleTable ==
    <<Tag(sym_foo, ExampleFile, <<"f", "u", "n", "c", "t", "i", "o", "n">>, 0, << >>)>>

ExampleLine ==
    <<"i", "n", "t", " ", "f", "o", "o", "(", ")", " ", "{", " ",
      "r", "e", "t", "u", "r", "n", " ", "1", ";", " ", "}", " ",
      "/", "/", " ", "c", "a", "l", "l", "s", " ", "f", "o", "o">>

\* A symbol occurring on two lines of its file, once followed by its own
\* last character.
CascadeTable == <<Tag(sym_fg, FileA, << >>, 1, << >>)>>

CascadeContent == <<"f", "g", "g", NL, "f", "g">>

\* The (old, new) pairs a command is given: a plain rename, a new symbol that
\* contains the old one, a shorter new symbol; foo -> bar in the example, and
\* a new symbol that is the old one cut short where it occurs twice.
Renames ==
    IF tags = ExampleTable
    THEN { <<sym_foo, sym_bar>> }
    ELSE IF tags = CascadeTable
    THEN { <<sym_fg, sym_f>> }
    ELSE { <<sym_f, sym_g>>, <<sym_f, sym_ff>>, <<sym_ff, sym_f>> }

\* The second file: a line with an occurrence, and an indented line with an
\* occurrence followed by a comment mention.
ContentB == <<"f", NL, " ", "f", "/", "/", "f">>

\* Access to the two files: both writable, either one read-only, the first
\* unreadable.
Modes ==
    { [n \in {FileA, FileB} |-> "rw"],
      [n \in {FileA, FileB} |-> IF n = FileA THEN "ro" ELSE "rw"],
      [n \in {FileA, FileB} |-> IF n = FileA THEN "rw" ELSE "ro"],
      [n \in {FileA, FileB} |-> IF n = FileA THEN "none" ELSE "rw"] }

\* What the entry of a command records of the command before it.
Repeats(cmd, old, new) ==
    /\ cmd = "execute"
    /\ lastCall.cmd = "execute"
    /\ lastCall.old = old
    /\ lastCall.new = new

Init ==
    /\ \/ /\ tags \in RenameTables
          /\ \E ca \in Str(MaxLen) :
                fs = [n \in {FileA, FileB} |-> IF n = FileA THEN ca ELSE ContentB]
          /\ mode \in Modes
       \/ /\ tags = ExampleTable
          /\ fs = [n \in {ExampleFile} |-> ExampleLine]
          /\ mode = [n \in {ExampleFile} |-> "rw"]
       \/ /\ tags = CascadeTable
          /\ fs = [n \in {FileA} |-> CascadeContent]
          /\ mode = [n \in {FileA} |-> "rw"]
    /\ lastCall = [cmd |-> "none", old |-> << >>, new |-> << >>, repeated |-> FALSE]
    /\ result = [status |-> "none"]

\* main(): preview <old> <new>
Preview ==
    \E r \in Renames :
        /\ lastCall' = [cmd |-> "preview", old |-> r[1], new |-> r[2],
                        repeated |-> Repeats("preview", r[1], r[2])]
        /\ result' = preview_rename(tags, fs, mode, r[1], r[2])
        /\ UNCHANGED <<tags, fs, mode>>

\* main(): rename <old> <new>
RenameDryRun ==
    \E r \in Renames :
        LET out == rename_symbol(tags, fs, mode, r[1], r[2], TRUE)
        IN  /\ lastCall' = [cmd |-> "rename", old |-> r[1], new |-> r[2],
                        repeated |-> Repeats("rename", r[1], r[2])]
                /\ result' = out.ret
            /\ fs' = out.fs
            /\ UNCHANGED <<tags, mode>>

\* main(): rename --execute <old> <new>
RenameExecute ==
    \E r \in Renames :
        LET out == rename_symbol(tags, fs, mode, r[1], r[2], FALSE)
        IN  /\ Len(find_symbol_occurrences(tags, fs, mode, r[1])) <= MaxChanges
            /\ lastCall' = [cmd |-> "execute", old |-> r[1], new |-> r[2],
                        repeated |-> Repeats("execute", r[1], r[2])]
                /\ result' = out.ret
            /\ fs' = out.fs
            /\ UNCHANGED <<tags, mode>>

Next == Preview \/ RenameDryRun \/ RenameExecute

Spec == Init /\ [][Next]_vars
-----------------------------------------------------------------------------
(* The tag tables and queries explored for the query engine.                *)

MaxTags == 3         \* longest table built freely from TagChoices

k_v == <<"v">>
k_m == <<"m">>
k_x == <<"x">>

\* Entries that differ in name, file, kind, line and typeref: two of the same
\* name, one whose name holds the others' in another case, one that refers to
\* f only through its typeref.
TagChoices ==
    { Tag(sym_f, FileB, << >>, 2, << >>),
      Tag(sym_f, FileA, k_v, 1, << >>),
      Tag(<<"F", "f">>, FileA, k_v, 2, sym_f),
      Tag(sym_g, FileB, k_m, 0, sym_f) }

\* _load_tags numbers the entries by their line of the tag file.
Numbered(t) == [i \in 1 .. Len(t) |-> [t[i] EXCEPT !.line_number = i]]

Times(x, n) == [i \in 1 .. n |-> x]

\* Every table of up to MaxTags entries, and tables of one entry repeated
\* beyond the definition limit, followed by at most one other entry.
QueryTables ==
    {Numbered(t) : t \in UNION {[1 .. k -> TagChoices] : k \in 0 .. MaxTags}}
    \cup {Numbered(Times(r, DefinitionLimit + 1) \o t) :
             r \in TagChoices, t \in UNION {[1 .. k -> TagChoices] : k \in 0 .. 1}}

QuerySymbols == {sym_f, <<"F">>, sym_g}
QueryKinds == {None, Some(<< >>), Some(k_v), Some(k_x)}
QueryFiles == {None, Some(FileA)}

InitQuery ==
    /\ tags \in QueryTables
    /\ fs = << >>
    /\ mode = << >>
    /\ lastCall = [cmd |-> "none"]
    /\ result = [status |-> "none"]

\* ctags_mcp_tool.py main(): search <query> [kind] [filename]
Search ==
    \E q \in QuerySymbols, kind \in QueryKinds, filename \in QueryFiles :
        /\ lastCall' = [cmd |-> "search", query |-> q, kind |-> kind,
                        filename |-> filename]
        /\ result' = Tool_search_symbols(tags, q, kind, filename)
        /\ UNCHANGED <<tags, fs, mode>>

\* ctags_mcp_tool.py main(): definition <symbol>
Definition ==
    \E symbol \in QuerySymbols :
        /\ lastCall' = [cmd |-> "definition", symbol |-> symbol]
        /\ result' = Tool_find_definition(tags, symbol)
        /\ UNCHANGED <<tags, fs, mode>>

\* ctags_cursor_integration.py main(): goto_definition <symbol>
GotoDefinition ==
    \E symbol \in QuerySymbols :
        /\ lastCall' = [cmd |-> "goto_definition", symbol |-> symbol]
        /\ result' = Cursor_goto_definition(tags, symbol)
        /\ UNCHANGED <<tags, fs, mode>>

\* ctags_mcp_tool.py main(): references <symbol>
References ==
    \E symbol \in QuerySymbols :
        /\ lastCall' = [cmd |-> "references", symbol |-> symbol]
        /\ result' = [symbol     |-> symbol,
                      references |-> Tool_find_references(tags, symbol)]
        /\ UNCHANGED <<tags, fs, mode>>

NextQuery == Search \/ Definition \/ GotoDefinition \/ References

SpecQuery == InitQuery /\ [][NextQuery]_vars

-----------------------------------------------------------------------------
(* The lines and offsets explored for the comment classifier.               *)

MaxLineLen == 6      \* longest line classified

LineChars == {"/", "*", "x"}

\* The lines of at most max characters.
ClassifierLines(max) == UNION {[1 .. k -> LineChars] : k \in 0 .. max}

InitComment ==
    /\ tags = << >>
    /\ fs = << >>
    /\ mode = << >>
    /\ \E line \in ClassifierLines(MaxLineLen) :
           \E position \in 0 .. Len(line) :
               lastCall = [cmd |-> "none", line |-> line, position |-> position]
    /\ result = FALSE

\* AdvancedRefactorTool.is_in_comment(line, position)
IsInComment ==
    /\ lastCall.cmd = "none"
    /\ lastCall' = [lastCall EXCEPT !.cmd = "is_in_comment"]
    /\ result' = is_in_comment(lastCall.line, lastCall.position)
    /\ UNCHANGED <<tags, fs, mode>>

\* AdvancedRefactorTool.is_comment_line(line)
IsCommentLine ==
    /\ lastCall.cmd = "none"
    /\ lastCall' = [lastCall EXCEPT !.cmd = "is_comment_line"]
    /\ result' = is_comment_line(lastCall.line)
    /\ UNCHANGED <<tags, fs, mode>>

NextComment == IsInComment \/ IsCommentLine

SpecComment == InitComment /\ [][NextComment]_vars

-----------------------------------------------------------------------------
(* The tag files explored for the parser.                                   *)

MaxTokens == 6       \* longest generated tag line, in tokens

\* What a generated line is made of: a name and a file, a character, a
\* space, a tab, and two extension fields.
LineTokens ==
    { <<"a", TAB, "a", TAB>>, <<"a">>, <<" ">>, <<TAB>>,
      <<"k", "i", "n", "d", ":", "v">>, <<"l", "i", "n", "e", ":", "1">> }

RECURSIVE Concat(_)
Concat(parts) == IF parts = << >> THEN << >> ELSE Head(parts) \o Concat(Tail(parts))

\* The lines of at most max tokens.
TagLines(max) == {Concat(t) : t \in UNION {[1 .. k -> LineTokens] : k \in 0 .. max}}

MetaLine == MetaPrefix \o <<"F", "I", "L", "E", TAB, "x", TAB, "y">>

\* A tag file of one generated line, alone or after a metadata line.
TagFiles(max) ==
    {l \o <<NL>> : l \in TagLines(max)}
        \cup {MetaLine \o <<NL>> \o l \o <<NL>> : l \in TagLines(max)}

InitParse ==
    /\ tags = << >>
    /\ \/ fs \in {[n \in {TagsFile} |-> c] : c \in TagFiles(MaxTokens)}
       \/ fs = << >>
    /\ mode = << >>
    /\ lastCall = [cmd |-> "none"]
    /\ result = [status |-> "none"]

\* CtagsParser.__init__: the table is loaded once.
LoadTags ==
    /\ lastCall.cmd = "none"
    /\ tags' = load_tags(fs)
    /\ lastCall' = [cmd |-> "load"]
    /\ UNCHANGED <<fs, mode, result>>

NextParse == LoadTags

SpecParse == InitParse /\ [][NextParse]_vars

-----------------------------------------------------------------------------
(* Properties of the rename engine.                                         *)

ExampleNewLine ==
    <<"i", "n", "t", " ", "b", "a", "r", "(", ")", " ", "{", " ",
      "r", "e", "t", "u", "r", "n", " ", "1", ";", " ", "}", " ",
      "/", "/", " ", "c", "a", "l", "l", "s", " ", "f", "o", "o">>

ExamplePreviewed ==
    /\ tags = ExampleTable
    /\ fs[ExampleFile] = ExampleLine
    /\ lastCall.cmd = "preview"
    /\ lastCall.old = sym_foo
    /\ lastCall.new = sym_bar

\* C1: in the end-to-end example, preview("foo","bar") proposes the new line
\* `int bar() { return 1; } // calls foo` for its occurrence: the mention of
\* foo in the comment is left as it is.
C1_PreviewLeavesCommentMention ==
    ExamplePreviewed =>
        /\ Len(result.changes) >= 1
        /\ \A i \in 1 .. Len(result.changes) :
              result.changes[i].new_line = ExampleNewLine

\* C2: in the end-to-end example, preview("foo","bar") reports
\* skippedCommentCount = 1: the mention after // is counted.
C2_PreviewCountsCommentMention ==
    ExamplePreviewed => result.skipped_comments = 1

\* C3: the files an executed rename reports as changed, and the files whose
\* content it changes, are among the filesAffected of the preview computed
\* for the same arguments on the file system the rename started from.
C3_ApplyWithinPreview ==
    [][lastCall'.cmd = "execute" =>
          LET affected == preview_rename(tags, fs, mode, lastCall'.old,
                                         lastCall'.new).files_affected
          IN  /\ result'.files_changed \subseteq affected
              /\ DOMAIN fs' = DOMAIN fs
              /\ \A n \in DOMAIN fs : fs'[n] # fs[n] => n \in affected]_vars

C3_Witness ==
    /\ lastCall.cmd = "execute"
    /\ result.files_changed = {FileA, FileB}
    /\ result.preview.files_affected = {FileA, FileB}

\* Whether sym stands somewhere in the content outside comments: on a line
\* that is no comment line, at an offset that is not inside a comment.
AppearsAsCode(content, sym) ==
    LET lines == Split(content, <<NL>>)
    IN  \E k \in 1 .. Len(lines) :
           /\ ~is_comment_line(lines[k])
           /\ \E p \in 0 .. (Len(lines[k]) - Len(sym)) :
                 /\ SubSeq(lines[k], p + 1, p + Len(sym)) = sym
                 /\ ~is_in_comment(lines[k], p)

\* C4: when an executed rename follows an executed rename of the same pair
\* and old no longer stands in any file as non-comment text, the second one
\* reports zero occurrences and changes no file.
C4_SecondApplyIdempotent ==
    [][(/\ lastCall.cmd = "execute"
        /\ lastCall'.cmd = "execute"
        /\ lastCall'.old = lastCall.old
        /\ lastCall'.new = lastCall.new
        /\ \A n \in DOMAIN fs : ~AppearsAsCode(fs[n], lastCall.old))
       => (/\ result'.preview.total_occurrences = 0
           /\ result'.files_changed = {}
           /\ fs' = fs)]_vars

C4_Witness ==
    /\ lastCall.cmd = "execute"
    /\ lastCall.repeated
    /\ lastCall.old = sym_f
    /\ lastCall.new = sym_g
    /\ Contains(fs[FileA], sym_g)
    /\ Contains(fs[FileB], sym_g)
    /\ result.preview.total_occurrences = 0

\* C5: a preview and a rename without the execute flag leave every file as
\* it was, and the rename returns status "preview".
C5_PreviewReadOnly ==
    [][lastCall'.cmd \in {"preview", "rename"} =>
          /\ fs' = fs
          /\ mode' = mode
          /\ (lastCall'.cmd = "rename" => result'.status = "preview")]_vars

C5_Witness ==
    /\ lastCall.cmd = "rename"
    /\ result.status = "preview"
    /\ result.preview.total_occurrences >= 2
    /\ FileA \in result.preview.files_affected
    /\ AppearsAsCode(fs[FileA], lastCall.old)

\* C6: an executed rename returns status "completed" whatever fails; the
\* files it lists as changed are exactly the affected files that could be
\* rewritten; those are rewritten, also after a file that failed, and a file
\* that failed keeps its content.
C6_ApplyBestEffort ==
    [][lastCall'.cmd = "execute" =>
          LET affected == result'.preview.files_affected
              ok == {n \in affected : mode[n] = "rw"}
          IN  /\ result'.status = "completed"
              /\ result'.files_changed = ok
              /\ \A n \in ok : fs'[n] # fs[n]
              /\ \A n \in DOMAIN fs \ ok : fs'[n] = fs[n]]_vars

C6_Witness ==
    /\ lastCall.cmd = "execute"
    /\ result.status = "completed"
    /\ \E i, j \in 1 .. Len(result.preview.changes) :
          /\ i < j
          /\ result.preview.changes[i].file \notin result.files_changed
          /\ result.preview.changes[j].file \in result.files_changed
-----------------------------------------------------------------------------
(* Properties of the query engine, under SpecQuery.                         *)

HasExact(symbol) == \E i \in 1 .. Len(tags) : tags[i].name = symbol

\* C7: findDefinition(symbol) returns exactly the records named symbol, in
\* table order, when there is one, and otherwise exactly the substring
\* matches of findByName(symbol), none of which is named symbol; the adapter
\* returns at most the first 10 of them.
C7_DefinitionExactOrFallback ==
    lastCall.cmd = "definition" =>
        LET symbol == lastCall.symbol
            defs == result.definitions
        IN  /\ Len(defs) <= 10
            /\ HasExact(symbol) =>
                  /\ \A i \in 1 .. Len(defs) : defs[i].name = symbol
                  /\ defs = Take(SelectSeq(tags, LAMBDA tag : tag.name = symbol), 10)
            /\ ~HasExact(symbol) =>
                  /\ \A i \in 1 .. Len(defs) :
                        /\ defs[i].name # symbol
                        /\ Contains(Lower(defs[i].name), Lower(symbol))
                  /\ defs = Take(find_symbols(tags, symbol, None, None), 10)

C7_Witness ==
    /\ lastCall.cmd = "definition"
    /\ lastCall.symbol = sym_f
    /\ Len(result.definitions) = 10
    /\ Len(SelectSeq(tags, LAMBDA tag : tag.name = sym_f)) > 10
    /\ \E i \in 1 .. Len(tags) :
          tags[i].name # sym_f /\ Contains(Lower(tags[i].name), sym_f)

\* The search was given a kind that no record of the table carries.
SearchForAbsentKind ==
    /\ lastCall.cmd = "search"
    /\ lastCall.kind.some
    /\ \A i \in 1 .. Len(tags) : tags[i].kind # lastCall.kind.val

\* C8 as stated: a search whose kindFilter is a kind that no record carries
\* returns an empty symbol list with total = 0.
C8_AbsentKindEmpty_Original ==
    SearchForAbsentKind =>
        result.symbols = << >> /\ result.total_results = 0

\* C8, amended: a search whose kindFilter is a non-empty kind that no record
\* carries returns an empty symbol list with total = 0.
C8_AbsentKindEmpty ==
    (SearchForAbsentKind /\ lastCall.kind.val # << >>) =>
        result.symbols = << >> /\ result.total_results = 0

C8_Witness ==
    /\ SearchForAbsentKind
    /\ lastCall.kind.val = k_x
    /\ lastCall.filename = None
    /\ result.total_results = 0
    /\ \E i \in 1 .. Len(tags) :
          Contains(Lower(tags[i].name), Lower(lastCall.query))

-----------------------------------------------------------------------------
(* Properties of the comment classifier, under SpecComment.                 *)

\* The token tok starts at the 0-based offset i of the line.
At(line, tok, i) ==
    i + Len(tok) <= Len(line) /\ SubSeq(line, i + 1, i + Len(tok)) = tok

\* The first tok of the line starts at offset q.
FirstToken(line, tok, q) ==
    At(line, tok, q) /\ \A j \in 0 .. q - 1 : ~At(line, tok, j)

\* The line's first /* starts before pos and no */ starts between it and pos:
\* a block comment not closed before pos.
BlockOpenBefore(line, pos) ==
    \E b \in 0 .. pos - 1 :
        /\ FirstToken(line, <<"/", "*">>, b)
        /\ \A e \in b .. pos - 1 : ~At(line, <<"*", "/">>, e)

\* C9 as stated: is_in_comment(line, pos) is true for every pos after the
\* // token of the line and false for every pos strictly before it.
C9_SlashesDecide_Original ==
    lastCall.cmd = "is_in_comment" =>
        \A q \in 0 .. Len(lastCall.line) :
            FirstToken(lastCall.line, <<"/", "/">>, q) =>
                /\ lastCall.position > q => result = TRUE
                /\ lastCall.position < q => result = FALSE

\* C9, amended: is_in_comment(line, pos) is true for every pos after the
\* first // token of the line, and false for every pos strictly before it
\* unless a block comment opened before pos is not closed before pos.
C9_SlashesDecide ==
    lastCall.cmd = "is_in_comment" =>
        \A q \in 0 .. Len(lastCall.line) :
            FirstToken(lastCall.line, <<"/", "/">>, q) =>
                /\ lastCall.position > q => result = TRUE
                /\ (lastCall.position < q
                      /\ ~BlockOpenBefore(lastCall.line, lastCall.position))
                   => result = FALSE

\* A position after a closed block comment and before the //.
C9_Witness ==
    /\ lastCall.cmd = "is_in_comment"
    /\ result = FALSE
    /\ \E q \in 0 .. Len(lastCall.line) :
          /\ FirstToken(lastCall.line, <<"/", "/">>, q)
          /\ lastCall.position < q
    /\ \E b \in 0 .. lastCall.position - 1 :
          /\ FirstToken(lastCall.line, <<"/", "*">>, b)
          /\ \E e \in b .. lastCall.position - 1 :
                At(lastCall.line, <<"*", "/">>, e)

-----------------------------------------------------------------------------
(* Properties of the tag file parser, under SpecParse.                      *)

\* The n-th line of the tag file, without its line terminator.
RawLine(n) ==
    LET l == ReadLines(fs[TagsFile])[n]
    IN  IF EndsWith(l, <<NL>>) THEN SubSeq(l, 1, Len(l) - 1) ELSE l

\* The tab-separated fields of a line.
Fields(raw) == Split(raw, <<TAB>>)

\* A tag line that is not metadata, with a name and a file free of blanks
\* and a locator that is more than blanks.
ValidTagLine(raw) ==
    /\ Len(Fields(raw)) >= 3
    /\ \A i \in 1 .. 2 :
          /\ Fields(raw)[i] # << >>
          /\ \A j \in 1 .. Len(Fields(raw)[i]) : Fields(raw)[i][j] \notin Whitespace
    /\ \E j \in 1 .. Len(Fields(raw)[3]) : Fields(raw)[3][j] \notin Whitespace
    /\ ~StartsWith(raw, MetaPrefix)

\* C10: parsing is lossless for the three mandatory fields: every valid tag
\* line with at least three tab-separated fields that is not a metadata line
\* produces a record whose name, file and exCommand equal the first, second
\* and third field of the line character for character.
C10_ParseLossless ==
    (lastCall.cmd = "load" /\ TagsFile \in DOMAIN fs) =>
        \A n \in 1 .. Len(ReadLines(fs[TagsFile])) :
            ValidTagLine(RawLine(n)) =>
                \E i \in 1 .. Len(tags) :
                    /\ tags[i].line_number = n
                    /\ tags[i].name = Fields(RawLine(n))[1]
                    /\ tags[i].filename = Fields(RawLine(n))[2]
                    /\ tags[i].excmd = Fields(RawLine(n))[3]

-----------------------------------------------------------------------------
(* Properties of the occurrence scan, under Spec.                           *)

\* The preview a preview or dry-run command returned.
PreviewOf == IF lastCall.cmd = "preview" THEN result ELSE result.preview

\* The lines of a file the scan can read.
ScannedLines(file) ==
    IF file \in DOMAIN fs /\ mode[file] # "none" THEN ReadLines(fs[file]) ELSE << >>

\* How many references returned for the symbol name the file.
ReferencesTo(file, symbol) ==
    LET refs == find_all_references(tags, symbol)
    IN  Cardinality({i \in 1 .. Len(refs) : refs[i].file = file})

\* How many occurrences were recorded at a place.
RecordedAt(file, line_num, column) ==
    LET changes == PreviewOf.changes
    IN  Cardinality({i \in 1 .. Len(changes) :
                        /\ changes[i].file = file
                        /\ changes[i].line = line_num
                        /\ changes[i].column = column})

\* The symbol starts at the offset of a line that is not a comment line, and
\* the offset is not classified as inside a comment.
CodeOffset(line, symbol, offset) ==
    /\ ~is_comment_line(line)
    /\ At(line, symbol, offset)
    /\ ~is_in_comment(line, offset)

\* C11: find_symbol_occurrences records, for each reference and each line of
\* the referenced file that is not a comment line, exactly one occurrence
\* per start offset of the symbol that is not classified as inside a comment
\* (1-based line, column = offset + 1) and none for any other offset; in the
\* example, exactly one occurrence at line 1, column 5.
C11_OccurrencesPerOffset ==
    lastCall.cmd \in {"preview", "rename"} =>
        LET changes == PreviewOf.changes
            files == DOMAIN fs \cup {changes[i].file : i \in 1 .. Len(changes)}
        IN  /\ PreviewOf.total_occurrences = Len(changes)
            /\ \A i \in 1 .. Len(changes) :
                  /\ changes[i].line \in 1 .. Len(ScannedLines(changes[i].file))
                  /\ changes[i].column - 1 \in
                        0 .. Len(ScannedLines(changes[i].file)[changes[i].line])
            /\ \A file \in files :
                  \A k \in 1 .. Len(ScannedLines(file)) :
                      \A offset \in 0 .. Len(ScannedLines(file)[k]) :
                          RecordedAt(file, k, offset + 1) =
                              IF CodeOffset(ScannedLines(file)[k], lastCall.old, offset)
                              THEN ReferencesTo(file, lastCall.old)
                              ELSE 0
            /\ (tags = ExampleTable /\ fs[ExampleFile] = ExampleLine) =>
                  /\ Len(changes) = 1
                  /\ changes[1].line = 1
                  /\ changes[1].column = 5

\* Overlapping matches in one line, each recorded.
C11_Witness ==
    /\ lastCall.cmd = "preview"
    /\ lastCall.old = sym_ff
    /\ fs[FileA] = <<"f", "f", "f">>
    /\ RecordedAt(FileA, 1, 1) = 1
    /\ RecordedAt(FileA, 1, 2) = 1

-----------------------------------------------------------------------------
(* Properties of what apply writes, under Spec.                             *)

RECURSIVE CodeMatchFrom(_, _, _)
\* The first offset at or after from where the symbol starts and that is not
\* classified as inside a comment; -1 if there is none.
CodeMatchFrom(line, symbol, from) ==
    IF from + Len(symbol) > Len(line) THEN -1
    ELSE IF At(line, symbol, from) /\ ~is_in_comment(line, from) THEN from
    ELSE CodeMatchFrom(line, symbol, from + 1)

RECURSIVE TextAround(_, _, _)
\* The pieces of a line left when its non-comment-positioned matches of the
\* symbol are cut out, taking the matches from left to right.
TextAround(line, symbol, from) ==
    LET pos == CodeMatchFrom(line, symbol, from)
    IN  IF pos = -1 THEN <<Slice(line, from, Len(line))>>
        ELSE <<Slice(line, from, pos)>> \o TextAround(line, symbol, pos + Len(symbol))

RECURSIVE KeepsPieces(_, _)
\* The text is the pieces in their order, with anything in place of each
\* match between two of them.
KeepsPieces(pieces, text) ==
    IF Len(pieces) = 1 THEN text = pieces[1]
    ELSE /\ StartsWith(text, pieces[1])
         /\ \E w \in Len(pieces[1]) .. Len(text) :
               KeepsPieces(Tail(pieces), Slice(text, w, Len(text)))

\* Between the two contents of a file, only non-comment-positioned matches
\* of the symbol on lines that are not comment lines differ.
OnlyCodeMatchesDiffer(before, after, symbol) ==
    LET old_lines == Split(before, <<NL>>)
        new_lines == Split(after, <<NL>>)
    IN  /\ Len(new_lines) = Len(old_lines)
        /\ \A k \in 1 .. Len(old_lines) :
              IF is_comment_line(old_lines[k]) \/ ~Contains(old_lines[k], symbol)
              THEN new_lines[k] = old_lines[k]
              ELSE KeepsPieces(TextAround(old_lines[k], symbol, 0), new_lines[k])

\* C12: apply does not alter comment text: every comment line, every line
\* without the old symbol and every comment-positioned match is unchanged in
\* the written file, and only non-comment-positioned matches on non-comment
\* lines differ from the original.
C12_ApplyKeepsCommentText ==
    [][lastCall'.cmd = "execute" =>
          \A file \in DOMAIN fs :
              OnlyCodeMatchesDiffer(fs[file], fs'[file], lastCall'.old)]_vars

\* C16: the content apply leaves in every changed file is the original
\* content after a single left-to-right replacement pass, however many
\* occurrences the preview lists for the file.
C16_ApplySinglePass ==
    [][lastCall'.cmd = "execute" =>
          \A file \in result'.files_changed :
              fs'[file] = rewrite_content(fs[file], lastCall'.old, lastCall'.new)]_vars

-----------------------------------------------------------------------------
(* Order of the query results, under SpecQuery.                             *)

\* The records are in ascending (file, line) order.
AscendingByFileLine(records) ==
    \A i \in 1 .. Len(records) - 1 :
        \/ StrLess(records[i].filename, records[i + 1].filename)
        \/ /\ records[i].filename = records[i + 1].filename
           /\ records[i].line <= records[i + 1].line

\* C13: findByName, findDefinition and findReferences return their records
\* in ascending (file, line) order, whatever the order of the table.
C13_ResultsAscending ==
    /\ lastCall.cmd = "search" => AscendingByFileLine(result.symbols)
    /\ lastCall.cmd = "definition" => AscendingByFileLine(result.definitions)
    /\ lastCall.cmd = "references" => AscendingByFileLine(result.references)

-----------------------------------------------------------------------------
(* The block comment test of the classifier, under SpecComment.             *)

\* C14: is_in_comment(line, offset) is true whenever a /* appears before
\* offset on the line and its */ either does not appear on the line or
\* appears at or after offset, the case where */ starts exactly at offset
\* included.  Stated for offsets past the whole /* token.
C14_OpenBlockIsComment ==
    (lastCall.cmd = "is_in_comment"
        /\ BlockOpenBefore(lastCall.line, lastCall.position)
        /\ \E b \in 0 .. lastCall.position - 2 :
               FirstToken(lastCall.line, <<"/", "*">>, b))
    => result = TRUE

-----------------------------------------------------------------------------
(* The extension fields of a tag line, under SpecParse.                     *)

KnownKeys ==
    { <<"k", "i", "n", "d">>, <<"l", "i", "n", "e">>,
      <<"t", "y", "p", "e", "r", "e", "f">>, <<"s", "c", "o", "p", "e">>,
      <<"a", "c", "c", "e", "s", "s">>,
      <<"s", "i", "g", "n", "a", "t", "u", "r", "e">> }

\* A key:value pair: what stands before and after its first colon.
IsPair(field) == \E i \in 1 .. Len(field) : field[i] = ":"
PairKey(field) ==
    SubSeq(field, 1, (CHOOSE i \in 1 .. Len(field) :
                         field[i] = ":" /\ \A j \in 1 .. i - 1 : field[j] # ":") - 1)
PairValue(field) == SubSeq(field, Len(PairKey(field)) + 2, Len(field))

\* The record holds the value under the known key.
Stored(tag, key, value) ==
    CASE key = <<"k", "i", "n", "d">> -> tag.kind = value
      [] key = <<"l", "i", "n", "e">> ->
            tag.line = (IF IsDigit(value) THEN ToInt(value) ELSE 0)
      [] key = <<"t", "y", "p", "e", "r", "e", "f">> -> tag.typeref = value
      [] key = <<"s", "c", "o", "p", "e">> -> tag.scope = value
      [] key = <<"a", "c", "c", "e", "s", "s">> -> tag.access = value
      [] OTHER -> tag.signature = value

\* C15: each known key among the tab-separated key:value extension pairs of
\* a tag line is stored in the record, whatever its position among the
\* pairs; an all-digit line value is stored as the number and any other line
\* value yields line 0.  Stated for lines with no blank at either end and
\* for keys the line gives once.
C15_ExtensionPairsStored ==
    (lastCall.cmd = "load" /\ TagsFile \in DOMAIN fs) =>
        \A n \in 1 .. Len(ReadLines(fs[TagsFile])) :
            LET raw == RawLine(n)
                fields == Fields(raw)
            IN  (ValidTagLine(raw) /\ Strip(raw) = raw) =>
                    \A j \in 4 .. Len(fields) :
                        (/\ IsPair(fields[j])
                         /\ PairKey(fields[j]) \in KnownKeys
                         /\ \A h \in 4 .. Len(fields) :
                               (h # j /\ IsPair(fields[h]))
                                   => PairKey(fields[h]) # PairKey(fields[j]))
                        => \E i \in 1 .. Len(tags) :
                               /\ tags[i].line_number = n
                               /\ Stored(tags[i], PairKey(fields[j]),
                                         PairValue(fields[j]))
====
